---------------------------- MODULE Spec2Model ----------------------------
(***************************************************************************)
(* localscope: the decorator that audits, at decoration time, the name     *)
(* loads of a callable's bytecode (src/localscope/__init__.py).            *)
(*                                                                         *)
(* A behaviour is: a caller holds a policy (predicate, allowed names,      *)
(* allow_closure), builds a parameterized decorator from it, and decorates *)
(* callables one after the other, directly or with that decorator.  One    *)
(* decoration is the wrapper `localscope`, the closure resolver, and the   *)
(* recursive walk `_localscope`, modelled one instruction / one constant   *)
(* at a time with an explicit call stack.                                  *)
(*                                                                         *)
(* Not modelled: the source text window of the exception message (lines    *)
(* 173-197), line numbers, the `allowed` argument given as one string      *)
(* (lines 119-120) and a raw code object given in place of a function.     *)
(***************************************************************************)
EXTENDS Integers, Sequences, FiniteSets, TLC

(***************************************************************************)
(* Bounds of the model.                                                    *)
(***************************************************************************)
\* Most instructions in the decorated callable's own code object.
MaxInstr == 2
\* Most constants (nested code objects and others) of a code object whose
\* nested code is under study.
MaxConsts == 2

(***************************************************************************)
(* Names and values.                                                       *)
(***************************************************************************)
\* The names instructions refer to.  "print" is a builtin; "__class__" is
\* the implicit cell of zero-argument super().
Names == {"x", "y", "np", "fn", "print", "__class__"}

\* A fixed order on names (co_freevars is kept sorted by the compiler).
NameOrder == <<"__class__", "fn", "np", "print", "x", "y">>

\* The kinds of value a global or a closure cell can hold.
Values == {"module", "function", "class", "int"}

\* class EmptyCell: the placeholder of an unpopulated cell.  It is the class
\* object itself that is stored, never an instance.
EmptyCell == "EmptyCell"

\* inspect.ismodule / isfunction / isclass, by kind of value.  EmptyCell is
\* declared with `class`, so isclass(EmptyCell) is true.
ismodule(v) == v = "module"

isfunction(v) == v = "function"

isclass(v) == v \in {"class", EmptyCell}

\* def _allow_mfc(x)
_allow_mfc(v) == ismodule(v) \/ isfunction(v) \/ isclass(v)

\* The custom predicate of test_allow_custom_predicate: isinstance(x, int).
isint(v) == v = "int"

\* What a caller may pass as `predicate`.
PredicateArgs == {"None", "_allow_mfc", "isint"}

\* predicate = predicate or inspect.ismodule
NormalisePredicate(p) == IF p = "None" THEN "ismodule" ELSE p

\* predicate(value)
ApplyPredicate(p, v) ==
    CASE p = "ismodule"   -> ismodule(v)
      [] p = "_allow_mfc" -> _allow_mfc(v)
      [] p = "isint"      -> isint(v)

\* func.__globals__, the namespace of the module the callables are defined
\* in: x = 17, import numpy as np, def fn(): ...; y is not defined.
ModuleGlobals ==
    [n \in {"x", "np", "fn"} |->
        CASE n = "x" -> "int" [] n = "np" -> "module" [] n = "fn" -> "function"]

\* What the enclosing function has bound a free variable to, once its
\* assignment has run: x an int, y a module, __class__ the class.
EnclosingValue(n) ==
    CASE n = "x" -> "int" [] n = "y" -> "module" [] OTHER -> "class"

\* hasattr(builtins, name): true of the builtin functions and of every
\* attribute the module object itself has, `__class__` among them.
hasattr_builtins(name) == name \in {"print", "__class__"}

(***************************************************************************)
(* Code objects.                                                           *)
(***************************************************************************)
Range(s) == {s[i] : i \in 1..Len(s)}

\* The sequence of the names of S, in NameOrder.
SortedSeq(S) == SelectSeq(NameOrder, LAMBDA n : n \in S)

\* A constant that is not a code object.
NoneConst == [type |-> "NoneType"]

\* isinstance(const, types.CodeType)
IsCodeType(const) == const.type = "code"

\* The instructions the walk distinguishes: the two loads it can forbid, the
\* cell store, and any other instruction.
LG(n) == [opname |-> "LOAD_GLOBAL", argval |-> n]

LD(n) == [opname |-> "LOAD_DEREF", argval |-> n]

SD(n) == [opname |-> "STORE_DEREF", argval |-> n]

OtherInstr == [opname |-> "RETURN_VALUE", argval |-> "None"]

\* The nested code objects among a code object's constants.
CodeConsts(code) == {k \in Range(code.co_consts) : IsCodeType(k)}

\* code.co_flags & inspect.CO_VARARGS
has_varargs(code) == IF "VARARGS" \in code.co_flags THEN 1 ELSE 0

\* The prefix of co_varnames that _localscope adds to the allowed names:
\* code.co_varnames[: co_argcount + co_kwonlyargcount + has_varargs].
ArgSlice(code) ==
    LET n == code.co_argcount + code.co_kwonlyargcount + has_varargs(code)
    IN {code.co_varnames[i] : i \in 1..(IF n < Len(code.co_varnames)
                                         THEN n ELSE Len(code.co_varnames))}

\* The parameters the code object really has: positional, keyword-only,
\* *args and **kwargs (co_varnames lists them first, in this order).
Parameters(code) ==
    LET n == code.co_argcount + code.co_kwonlyargcount
             + Cardinality(code.co_flags)
    IN {code.co_varnames[i] : i \in 1..n}

\* Names a cell instruction of the code object itself refers to.
DerefNames(code) ==
    {ins.argval : ins \in {i \in Range(code.instrs) :
                             i.opname \in {"LOAD_DEREF", "STORE_DEREF"}}}

StoredNames(code) ==
    {ins.argval : ins \in {i \in Range(code.instrs) : i.opname = "STORE_DEREF"}}

\* Names the code object binds: its locals and the cells it stores.
Bound(code) == Range(code.co_varnames) \cup StoredNames(code)

\* The free variables of a code object: the cells it or its nested code
\* reads that it does not bind itself (co_freevars).
RECURSIVE Free(_)
Free(code) ==
    (DerefNames(code) \cup UNION {Free(k) : k \in CodeConsts(code)})
        \ Bound(code)

ChildFree(code) == UNION {Free(k) : k \in CodeConsts(code)}

\* What the compiler guarantees of a code object nested in scopes binding
\* `outer`: a global load names nothing bound here or in an enclosing
\* function; a cell instruction names a local captured by nested code or a
\* variable of an enclosing function; a local outside the parameters that is
\* captured is no longer listed in co_varnames.
RECURSIVE WellFormed(_, _)
WellFormed(code, outer) ==
    /\ \A i \in 1..Len(code.instrs) :
         LET ins == code.instrs[i] IN
         /\ ins.opname = "LOAD_GLOBAL" =>
               ins.argval \notin (Bound(code) \cup outer)
         /\ ins.opname \in {"LOAD_DEREF", "STORE_DEREF"} =>
               IF ins.argval \in Bound(code)
               THEN ins.argval \in ChildFree(code)
               ELSE ins.argval \in outer
    /\ (Range(code.co_varnames) \ Parameters(code)) \cap ChildFree(code) = {}
    /\ "__class__" \notin Bound(code)
    /\ \A k \in CodeConsts(code) : WellFormed(k, outer \cup Bound(code))

\* All instructions of a code tree.
RECURSIVE TreeSize(_)
RECURSIVE TreeSizeOfConsts(_, _)
TreeSize(code) == Len(code.instrs) + TreeSizeOfConsts(code.co_consts, 1)

TreeSizeOfConsts(consts, j) ==
    IF j > Len(consts) THEN 0
    ELSE (IF IsCodeType(consts[j]) THEN TreeSize(consts[j]) ELSE 0)
         + TreeSizeOfConsts(consts, j + 1)


(***************************************************************************)
(* The closure resolver.                                                   *)
(***************************************************************************)
\* cell.cell_contents: the value of a populated cell; an unpopulated cell
\* raises ValueError("Cell is empty").
cell_contents(cell) ==
    IF cell.empty THEN [ok |-> FALSE, value |-> "ValueError: Cell is empty"]
    ELSE [ok |-> TRUE, value |-> cell.contents]

\* The position of name n in a sequence of distinct names.
IndexOf(seq, n) == CHOOSE i \in 1..Len(seq) : seq[i] = n

\* inspect.getclosurevars, which lets the ValueError of an empty cell
\* escape.
getclosurevars(f) ==
    LET fv == f.__code__.co_freevars
        got(n) == cell_contents(f.__closure__[IndexOf(fv, n)])
    IN [raised    |-> \E n \in Range(fv) : ~got(n).ok,
        nonlocals |-> [n \in Range(fv) |->
                         IF got(n).ok THEN got(n).value ELSE EmptyCell]]

\* def _safely_get_closure_vars(func): the nonlocals, by name, of
\* zip(code.co_freevars, func.__closure__).  The ValueError of an empty cell
\* is caught and EmptyCell stored; cell_contents raises no other ValueError,
\* so the resolver raises nothing.
_safely_get_closure_vars(f) ==
    LET fv == f.__code__.co_freevars
        got(n) == cell_contents(f.__closure__[IndexOf(fv, n)])
    IN [raised    |-> FALSE,
        nonlocals |-> [n \in Range(fv) |->
                         IF got(n).ok THEN got(n).value ELSE EmptyCell]]

\* {**func.__globals__, **nonlocals}: the nonlocals shadow the module's names.
MergeDicts(g, nl) ==
    [n \in (DOMAIN g) \cup (DOMAIN nl) |-> IF n \in DOMAIN nl THEN nl[n] ELSE g[n]]

(***************************************************************************)
(* The rules of the walk.                                                  *)
(***************************************************************************)
\* forbidden_opnames with LOAD_DEREF added whatever allow_closure says.
forbidden_opnames_unconditional(allow_closure) == {"LOAD_GLOBAL", "LOAD_DEREF"}

\* forbidden_opnames = {"LOAD_GLOBAL"}, plus "LOAD_DEREF" if not allow_closure
forbidden_opnames(allow_closure) ==
    {"LOAD_GLOBAL"} \cup (IF allow_closure THEN {} ELSE {"LOAD_DEREF"})

\* Classify without the test for builtins.
ClassifyWithoutBuiltins(name, allowedNames, globals, predicate) ==
    IF name \in allowedNames THEN "exempt"
    ELSE IF name \notin DOMAIN globals THEN "not in globals"
    ELSE IF ~ApplyPredicate(predicate, globals[name])
         THEN "not a permitted global"
    ELSE "admitted"

\* What the walk decides for a forbidden load of `name`: "exempt" (allowed by
\* name or an attribute of builtins), the reason of a violation, or
\* "admitted" (the predicate accepts the value).
Classify(name, allowedNames, globals, predicate) ==
    IF name \in allowedNames \/ hasattr_builtins(name) THEN "exempt"
    ELSE IF name \notin DOMAIN globals THEN "not in globals"
    ELSE IF ~ApplyPredicate(predicate, globals[name])
         THEN "not a permitted global"
    ELSE "admitted"

Reasons == {"not in globals", "not a permitted global"}

\* One entry of _errors: (message, variable_name, code, instruction, lineno),
\* without the code object and the line number.
ErrorEntry(reason, ins) ==
    [message |-> reason, name |-> ins.argval, instruction |-> ins]

\* LocalscopeException(entries): `vars` lists the variable name of every
\* entry, in order; the message joins the entries' messages.
LocalscopeException(entries) ==
    [kind     |-> "LocalscopeException",
     vars     |-> [i \in 1..Len(entries) |-> entries[i].name],
     messages |-> [i \in 1..Len(entries) |-> entries[i].message]]

\* The allow_closure a nested code object is analysed with (line 295).
NestedAllowClosure == TRUE

\* set(allowed) returning the object it was given instead of a new set.
SetAlias(src, fresh) == src

\* allowed = set(allowed) if allowed else set(): the wrapper always works on
\* a new set object `fresh`, never on the object `src` it was given.
SetCopy(src, fresh) == fresh

(***************************************************************************)
(* State.                                                                  *)
(***************************************************************************)
VARIABLES
    policy,           \* the keyword arguments as the caller wrote them
    sets,             \* the set objects: the caller's collection, the one
                      \* bound in the decorator, the one the walk works on
    decorator,        \* the ft.partial returned by localscope(**policy)
    func,             \* the callable of the current decoration
    predicate,        \* the predicate of the current decoration
    allowed,          \* which set object the current decoration updates
    _globals,         \* the globals snapshot of the current decoration
    _errors,          \* the violations recorded so far
    stack,            \* the calls of _localscope in progress
    log,              \* LOGGER.info(instruction): every instruction scanned
    predicate_calls,  \* the names whose value the predicate was asked about
    result,           \* what the decoration returned or raised
    pc,               \* "start", "ready", "scan" or "done"
    via,              \* how the current decoration was called: "direct",
                      \* "decorator", or "none" between decorations
    applied           \* the decorator has completed a decoration before

vars == <<policy, sets, decorator, func, predicate,
          allowed, _globals, _errors, stack, log, predicate_calls, result,
          pc, via, applied>>

NoDecorator == [bound |-> FALSE]

NoFunc == [__code__ |-> NoneConst, __closure__ |-> <<>>]

NoResult == [kind |-> "none"]


(***************************************************************************)
(* The inputs: the callables a behaviour decorates.                        *)
(***************************************************************************)
\* All sequences over S of length at most n.
RECURSIVE SeqsUpTo(_, _)
SeqsUpTo(S, n) ==
    IF n = 0 THEN {<<>>}
    ELSE LET shorter == SeqsUpTo(S, n - 1)
         IN shorter \cup {Append(q, e) : q \in shorter, e \in S}

\* A code object with the given signature, instructions and constants;
\* co_freevars is what the compiler derives from them.
MakeCode(sig, instrs, consts) ==
    LET base == [type              |-> "code",
                 co_varnames       |-> sig.co_varnames,
                 co_argcount       |-> sig.co_argcount,
                 co_kwonlyargcount |-> sig.co_kwonlyargcount,
                 co_flags          |-> sig.co_flags,
                 co_freevars       |-> <<>>,
                 instrs            |-> instrs,
                 co_consts         |-> consts]
    IN [base EXCEPT !.co_freevars = SortedSeq(Free(base))]

Signature(varnames, argcount, kwonly, flags) ==
    [co_varnames |-> varnames, co_argcount |-> argcount,
     co_kwonlyargcount |-> kwonly, co_flags |-> flags]

NoArgs == Signature(<<>>, 0, 0, {})

\* def f(), def f(x), def f(*x, y) and def f(x, **y).
Signatures ==
    {NoArgs,
     Signature(<<"x">>, 1, 0, {}),
     Signature(<<"y", "x">>, 0, 1, {"VARARGS"}),
     Signature(<<"x", "y">>, 1, 0, {"VARKEYWORDS"})}

InstrSet ==
    {LG("x"), LG("y"), LG("np"), LG("fn"), LG("print"),
     LD("x"), LD("y"), SD("x")}

\* lambda: n, a nested code object that only captures a name.
Capture(n) == MakeCode(NoArgs, <<LD(n)>>, <<>>)

\* The constants of a function whose own instructions are under study:
\* none, or a lambda capturing x or y.
FlatConsts == {<<>>, <<Capture("x")>>, <<Capture("y")>>}

\* Functions whose own instructions are under study.
FlatCodes ==
    {c \in {MakeCode(s, q, k) : s \in Signatures,
                                 q \in SeqsUpTo(InstrSet, MaxInstr),
                                 k \in FlatConsts} :
        WellFormed(c, Free(c))}

\* Methods that call super(): def m(y) reading the implicit cell __class__,
\* alone, then reading the free variable x, or after reading the global x.
MethodCodes ==
    {c \in {MakeCode(Signature(<<"y">>, 1, 0, {}), q, <<>>) :
               q \in {<<LD("__class__")>>,
                      <<LD("__class__"), LD("x")>>,
                      <<LG("x"), LD("__class__")>>}} :
        WellFormed(c, Free(c))}

\* The nested code objects under study: lambda: x; def g(): return x and
\* def g(): return y, reading globals; def g(x): pass;
\* def g(): x = 1; return lambda: x; and def g(): return lambda: y with y
\* a global of the lambda.
NestedCodes ==
    {Capture("x"),
     MakeCode(NoArgs, <<LG("x")>>, <<>>),
     MakeCode(NoArgs, <<LG("y")>>, <<>>),
     MakeCode(Signature(<<"x">>, 1, 0, {}), <<OtherInstr>>, <<>>),
     MakeCode(NoArgs, <<SD("x")>>, <<Capture("x")>>),
     MakeCode(NoArgs, <<>>, <<MakeCode(NoArgs, <<LG("y")>>, <<>>)>>)}

\* The own code of a function whose nested code is under study: def f()
\* with no instruction of interest, a read of the global x or a store to
\* the cell x, and def f(x).
OuterCodes(consts) ==
    {MakeCode(NoArgs, q, consts) : q \in {<<>>, <<LG("x")>>, <<SD("x")>>}}
    \cup {MakeCode(Signature(<<"x">>, 1, 0, {}), <<>>, consts)}

\* Functions whose nested code is under study.
TreeCodes ==
    {c \in UNION {OuterCodes(k) :
                    k \in SeqsUpTo(NestedCodes \cup {NoneConst}, MaxConsts)} :
        WellFormed(c, Free(c))}

\* The cell of a free variable at decoration time: unpopulated, or holding
\* the value the enclosing function has bound.
Cells(n) ==
    {[empty |-> TRUE, contents |-> "nothing"],
     [empty |-> FALSE, contents |-> EnclosingValue(n)]}

\* The closures a function with this code object can have: one cell per
\* free variable, in the order of co_freevars.
Closures(code) ==
    {cl \in [1..Len(code.co_freevars) -> UNION {Cells(n) : n \in Names}] :
        \A i \in 1..Len(code.co_freevars) : cl[i] \in Cells(code.co_freevars[i])}

Function(code, closure) == [__code__ |-> code, __closure__ |-> closure]

\* The callables a behaviour may decorate.
Functions ==
    {Function(c, cl) : <<c, cl>> \in
        UNION {{<<c, cl>> : cl \in Closures(c)} :
                  c \in FlatCodes \cup MethodCodes \cup TreeCodes}}

\* What the caller passes as `allowed`.
AllowedArgs == {{}, {"x"}}

SetObjects == {"caller", "partial", "work"}

Init ==
    /\ \E p \in PredicateArgs, a \in AllowedArgs, ac \in BOOLEAN :
          /\ policy = [predicate |-> p, allowed |-> a, allow_closure |-> ac]
          /\ sets = [o \in SetObjects |-> IF o = "caller" THEN a ELSE {}]
    /\ decorator = NoDecorator
    /\ func = NoFunc
    /\ predicate = "None"
    /\ allowed = "work"
    /\ _globals = <<>>
    /\ _errors = <<>>
    /\ stack = <<>>
    /\ log = <<>>
    /\ predicate_calls = <<>>
    /\ result = NoResult
    /\ pc = "start"
    /\ via = "none"
    /\ applied = FALSE

(***************************************************************************)
(* The operations.                                                         *)
(***************************************************************************)
\* One call of _localscope in progress: the code object, the next
\* instruction, the next constant, and the call's own flags.
Frame(code, allow_closure, top_level) ==
    [code |-> code, ip |-> 1, ci |-> 1,
     allow_closure |-> allow_closure, top_level |-> top_level]

Top == stack[Len(stack)]

\* The instruction the innermost call scans next.
Scanning == pc = "scan" /\ Top.ip <= Len(Top.code.instrs)

NextInstr == Top.code.instrs[Top.ip]

\* The innermost call is past its instructions and walks its constants.
InConsts == pc = "scan" /\ Top.ip > Len(Top.code.instrs)

Advance == [stack EXCEPT ![Len(stack)].ip = @ + 1]

\* localscope(predicate=..., allowed=..., allow_closure=...) without a
\* callable: the wrapper normalises its arguments and returns
\* ft.partial(localscope, ...) bound to them.
MakeDecorator ==
    /\ pc = "start"
    /\ LET ref == SetCopy("caller", "partial")
       IN /\ sets' = [sets EXCEPT ![ref] = sets["caller"]]
          /\ decorator' = [bound         |-> TRUE,
                           allowed       |-> ref,
                           predicate     |-> NormalisePredicate(policy.predicate),
                           allow_closure |-> policy.allow_closure]
    /\ pc' = "ready"
    /\ UNCHANGED <<policy, func, predicate, allowed,
                   _globals, _errors, stack, log, predicate_calls, result,
                   via, applied>>

\* localscope(f, predicate=p, allowed=<object src>, allow_closure=ac): the
\* wrapper copies the allowed names, then _localscope starts on the function:
\* it takes the globals snapshot and adds the arguments to the allowed names.
Call(f, src, p, ac, how) ==
    LET ref  == SetCopy(src, "work")
        code == f.__code__
        cv   == _safely_get_closure_vars(f)
    IN /\ func' = f
       /\ predicate' = NormalisePredicate(p)
       /\ allowed' = ref
       /\ _errors' = <<>>
       /\ log' = <<>>
       /\ predicate_calls' = <<>>
       /\ IF cv.raised
          THEN /\ sets' = [sets EXCEPT ![ref] = sets[src]]
               /\ _globals' = <<>>
               /\ stack' = <<>>
               /\ result' = [kind |-> "ValueError"]
               /\ pc' = "done"
          ELSE /\ sets' = [sets EXCEPT ![ref] = sets[src] \cup ArgSlice(code)]
               /\ _globals' = MergeDicts(ModuleGlobals, cv.nonlocals)
               /\ stack' = <<Frame(code, ac, TRUE)>>
               /\ result' = NoResult
               /\ pc' = "scan"
       /\ via' = how
       /\ UNCHANGED <<policy, decorator, applied>>

\* localscope(f, **policy), the direct form.
CallDirect ==
    /\ pc = "ready"
    /\ \E f \in Functions :
          Call(f, "caller", policy.predicate, policy.allow_closure, "direct")

\* d(f), d the decorator built before.
CallDecorator ==
    /\ pc = "ready"
    /\ decorator.bound
    /\ \E f \in Functions :
          Call(f, decorator.allowed, decorator.predicate,
               decorator.allow_closure, "decorator")

\* ScanForbidden raising at the first violation instead of recording it.
ScanForbiddenFailFast ==
    /\ Scanning
    /\ NextInstr.opname \in forbidden_opnames(Top.allow_closure)
    /\ LET verdict == Classify(NextInstr.argval, sets[allowed], _globals,
                               predicate)
       IN /\ _errors' = IF verdict \in Reasons
                        THEN Append(_errors, ErrorEntry(verdict, NextInstr))
                        ELSE _errors
          /\ predicate_calls' =
                IF verdict \in {"admitted", "not a permitted global"}
                THEN Append(predicate_calls, NextInstr.argval)
                ELSE predicate_calls
          /\ IF verdict \in Reasons
             THEN /\ result' = LocalscopeException(_errors')
                  /\ stack' = <<>>
                  /\ pc' = "done"
             ELSE /\ result' = result
                  /\ stack' = Advance
                  /\ pc' = pc
    /\ log' = Append(log, NextInstr)
    /\ UNCHANGED <<policy, sets, decorator, func, predicate, allowed, _globals,
                   via, applied>>

\* An instruction whose opname is forbidden: exempt by name, or judged by
\* the snapshot and the predicate; a violation is recorded, not raised.
ScanForbidden ==
    /\ Scanning
    /\ NextInstr.opname \in forbidden_opnames(Top.allow_closure)
    /\ LET verdict == Classify(NextInstr.argval, sets[allowed], _globals,
                               predicate)
       IN /\ _errors' = IF verdict \in Reasons
                        THEN Append(_errors, ErrorEntry(verdict, NextInstr))
                        ELSE _errors
          /\ predicate_calls' =
                IF verdict \in {"admitted", "not a permitted global"}
                THEN Append(predicate_calls, NextInstr.argval)
                ELSE predicate_calls
    /\ log' = Append(log, NextInstr)
    /\ stack' = Advance
    /\ UNCHANGED <<policy, sets, decorator, func,
                   predicate, allowed, _globals, result, pc, via, applied>>

\* ScanStore leaving the allowed names as they are.
ScanStoreWithoutAdd ==
    /\ Scanning
    /\ NextInstr.opname \notin forbidden_opnames(Top.allow_closure)
    /\ NextInstr.opname = "STORE_DEREF"
    /\ log' = Append(log, NextInstr)
    /\ stack' = Advance
    /\ UNCHANGED <<policy, sets, decorator, func, predicate,
                   allowed, _globals, _errors, predicate_calls, result, pc,
                   via, applied>>

\* STORE_DEREF: the name becomes allowed.
ScanStore ==
    /\ Scanning
    /\ NextInstr.opname \notin forbidden_opnames(Top.allow_closure)
    /\ NextInstr.opname = "STORE_DEREF"
    /\ sets' = [sets EXCEPT ![allowed] = @ \cup {NextInstr.argval}]
    /\ log' = Append(log, NextInstr)
    /\ stack' = Advance
    /\ UNCHANGED <<policy, decorator, func, predicate,
                   allowed, _globals, _errors, predicate_calls, result, pc,
                   via, applied>>

\* Any other instruction is only logged.
ScanOther ==
    /\ Scanning
    /\ NextInstr.opname \notin forbidden_opnames(Top.allow_closure)
    /\ NextInstr.opname # "STORE_DEREF"
    /\ log' = Append(log, NextInstr)
    /\ stack' = Advance
    /\ UNCHANGED <<policy, sets, decorator, func,
                   predicate, allowed, _globals, _errors, predicate_calls,
                   result, pc, via, applied>>

\* Recurse passing over a nested code object without analysing it.
RecurseWithoutDescent ==
    /\ InConsts
    /\ Top.ci <= Len(Top.code.co_consts)
    /\ IsCodeType(Top.code.co_consts[Top.ci])
    /\ stack' = [stack EXCEPT ![Len(stack)].ci = @ + 1]
    /\ UNCHANGED <<policy, sets, decorator, func, predicate, allowed, _globals,
                   _errors, log, predicate_calls, result, pc, via, applied>>

\* for const in code.co_consts: a code object is analysed by a nested call of
\* _localscope, which first adds its arguments to the allowed names.
Recurse ==
    /\ InConsts
    /\ Top.ci <= Len(Top.code.co_consts)
    /\ IsCodeType(Top.code.co_consts[Top.ci])
    /\ LET const == Top.code.co_consts[Top.ci]
       IN /\ sets' = [sets EXCEPT ![allowed] = @ \cup ArgSlice(const)]
          /\ stack' = Append(stack, Frame(const, NestedAllowClosure, FALSE))
    /\ UNCHANGED <<policy, decorator, func, predicate,
                   allowed, _globals, _errors, log, predicate_calls, result,
                   pc, via, applied>>

\* A constant that is no code object is passed over.
SkipConst ==
    /\ InConsts
    /\ Top.ci <= Len(Top.code.co_consts)
    /\ ~IsCodeType(Top.code.co_consts[Top.ci])
    /\ stack' = [stack EXCEPT ![Len(stack)].ci = @ + 1]
    /\ UNCHANGED <<policy, sets, decorator, func,
                   predicate, allowed, _globals, _errors, log,
                   predicate_calls, result, pc, via, applied>>

\* A nested call returns (it never raises): the caller goes on with its next
\* constant.
ReturnNested ==
    /\ InConsts
    /\ Top.ci > Len(Top.code.co_consts)
    /\ ~Top.top_level
    /\ stack' = [SubSeq(stack, 1, Len(stack) - 1)
                    EXCEPT ![Len(stack) - 1].ci = @ + 1]
    /\ UNCHANGED <<policy, sets, decorator, func,
                   predicate, allowed, _globals, _errors, log,
                   predicate_calls, result, pc, via, applied>>

\* The top-level call ends: if top_level and _errors: raise
\* LocalscopeException(_errors); otherwise return func.
Finish ==
    /\ InConsts
    /\ Top.ci > Len(Top.code.co_consts)
    /\ Top.top_level
    /\ result' = IF _errors # <<>> THEN LocalscopeException(_errors)
                 ELSE [kind |-> "returned", value |-> func]
    /\ stack' = <<>>
    /\ pc' = "done"
    /\ UNCHANGED <<policy, sets, decorator, func,
                   predicate, allowed, _globals, _errors, log,
                   predicate_calls, via, applied>>

\* The decorator has returned or raised and the caller goes on: what the
\* decoration created is discarded.
Continue ==
    /\ pc = "done"
    /\ pc' = "ready"
    /\ via' = "none"
    /\ applied' = (applied \/ via = "decorator")
    /\ sets' = IF allowed = "work" THEN [sets EXCEPT !["work"] = {}] ELSE sets
    /\ func' = NoFunc
    /\ predicate' = "None"
    /\ allowed' = "work"
    /\ _globals' = <<>>
    /\ _errors' = <<>>
    /\ log' = <<>>
    /\ predicate_calls' = <<>>
    /\ result' = NoResult
    /\ UNCHANGED <<policy, decorator, stack>>

Next ==
    \/ MakeDecorator
    \/ CallDirect
    \/ CallDecorator
    \/ ScanForbidden
    \/ ScanStore
    \/ ScanOther
    \/ Recurse
    \/ SkipConst
    \/ ReturnNested
    \/ Finish
    \/ Continue

Spec == Init /\ [][Next]_vars


(***************************************************************************)
(* The walk as a whole: what one isolated call of _localscope records,     *)
(* read off the code in one piece (lines 229-299): the arguments of a code *)
(* object, then its instructions in program order, then its nested code    *)
(* objects in the order of co_consts.                                      *)
(***************************************************************************)
RECURSIVE WalkOrder(_, _)
RECURSIVE WalkOrderOfConsts(_, _, _)
WalkOrder(code, nested) ==
    <<[ev |-> "enter", args |-> ArgSlice(code), ins |-> OtherInstr,
       nested |-> nested]>>
    \o [i \in 1..Len(code.instrs) |->
          [ev |-> "instr", args |-> {}, ins |-> code.instrs[i],
           nested |-> nested]]
    \o WalkOrderOfConsts(code.co_consts, 1, TRUE)

WalkOrderOfConsts(consts, j, nested) ==
    IF j > Len(consts) THEN <<>>
    ELSE (IF IsCodeType(consts[j]) THEN WalkOrder(consts[j], nested) ELSE <<>>)
         \o WalkOrderOfConsts(consts, j + 1, nested)

\* The instructions of a code tree in the order the walk logs them.
InstructionsInOrder(code) ==
    LET events == SelectSeq(WalkOrder(code, FALSE), LAMBDA e : e.ev = "instr")
    IN [i \in 1..Len(events) |-> events[i].ins]

\* The entries recorded from event i on, the allowed names being `names`.
RECURSIVE EntriesFrom(_, _, _, _, _, _)
EntriesFrom(events, i, names, globals, p, ac) ==
    IF i > Len(events) THEN <<>>
    ELSE LET e == events[i]
             forbidden == forbidden_opnames(IF e.nested THEN NestedAllowClosure
                                            ELSE ac)
             verdict == Classify(e.ins.argval, names, globals, p)
         IN IF e.ev = "enter"
            THEN EntriesFrom(events, i + 1, names \cup e.args, globals, p, ac)
            ELSE IF e.ins.opname \in forbidden
            THEN (IF verdict \in Reasons
                  THEN <<ErrorEntry(verdict, e.ins)>> ELSE <<>>)
                 \o EntriesFrom(events, i + 1, names, globals, p, ac)
            ELSE IF e.ins.opname = "STORE_DEREF"
            THEN EntriesFrom(events, i + 1, names \cup {e.ins.argval},
                             globals, p, ac)
            ELSE EntriesFrom(events, i + 1, names, globals, p, ac)

\* The outcome of localscope(f, predicate=p, allowed=a, allow_closure=ac)
\* called on its own.
IsolatedOutcome(f, p, a, ac) ==
    LET entries == EntriesFrom(WalkOrder(f.__code__, FALSE), 1, a,
                               MergeDicts(ModuleGlobals,
                                          _safely_get_closure_vars(f).nonlocals),
                               NormalisePredicate(p), ac)
    IN IF entries # <<>> THEN LocalscopeException(entries)
       ELSE [kind |-> "returned", value |-> f]

\* The names some code object of the tree adds to the allowed names: its
\* arguments and the cells it stores.
RECURSIVE AllowedByTree(_)
AllowedByTree(code) ==
    ArgSlice(code) \cup StoredNames(code)
    \cup UNION {AllowedByTree(k) : k \in CodeConsts(code)}

\* The names the nested code objects of the tree load as globals, and the
\* names the whole tree does.
RECURSIVE TreeGlobalLoads(_)
TreeGlobalLoads(code) ==
    {ins.argval : ins \in {i \in Range(code.instrs) : i.opname = "LOAD_GLOBAL"}}
    \cup UNION {TreeGlobalLoads(k) : k \in CodeConsts(code)}

NestedGlobalLoads(code) == UNION {TreeGlobalLoads(k) : k \in CodeConsts(code)}

\* The names the code object's own instructions load from a cell.
OwnCellLoads(code) ==
    {ins.argval : ins \in {i \in Range(code.instrs) : i.opname = "LOAD_DEREF"}}

\* The value the closure of f gives the free variable n, EmptyCell standing
\* for an unpopulated cell.
ClosureValue(f, n) ==
    LET cell == f.__closure__[IndexOf(f.__code__.co_freevars, n)]
    IN IF cell.empty THEN EmptyCell ELSE cell.contents

CellIsEmpty(f, n) == f.__closure__[IndexOf(f.__code__.co_freevars, n)].empty

Raised == result.kind = "LocalscopeException"

Returned == result = [kind |-> "returned", value |-> func]

\* The decoration raised and its `vars` names n.
Reported(n) == Raised /\ n \in Range(result.vars)


\* The decoration in progress was called with the default options.
DefaultOptions ==
    /\ policy.predicate = "None"
    /\ policy.allowed = {}
    /\ ~policy.allow_closure

(***************************************************************************)
(* C1.  A callable whose code tree reads only its own parameters, builtins *)
(* and locally assigned names (cells included, wherever the read sits) is  *)
(* returned as it is by localscope(f) with the default options.            *)
(***************************************************************************)
\* The code tree reads nothing from outside: it has no free variable, and
\* every global it loads is a builtin.
OnlyLocalReads(code) ==
    /\ Free(code) = {}
    /\ TreeGlobalLoads(code) \subseteq {"print"}

\* C1 as claimed: such a callable is returned unchanged.
C1_LocalOnlyIsReturned ==
    (pc = "done" /\ DefaultOptions /\ OnlyLocalReads(func.__code__))
        => Returned

(***************************************************************************)
(* C2.  A LOAD_GLOBAL of n in the top-level code object records nothing    *)
(* iff n is allowed, a builtin, or in the snapshot with a value the        *)
(* predicate accepts; otherwise it records exactly one entry, "not in      *)
(* globals" if n is absent and "not a permitted global" if the predicate   *)
(* rejects it.  The predicate is not asked about an allowed or builtin n.  *)
(***************************************************************************)
ScansTopLevelGlobalLoad ==
    Scanning /\ Len(stack) = 1 /\ NextInstr.opname = "LOAD_GLOBAL"

C2_GlobalLoadRule ==
    [][ScansTopLevelGlobalLoad =>
          LET n == NextInstr.argval
              byName == n \in sets[allowed] \/ n \in {"print", "__class__"}
              byValue == /\ n \in DOMAIN _globals
                         /\ ApplyPredicate(predicate, _globals[n])
              entry == [message |-> IF n \in DOMAIN _globals
                                    THEN "not a permitted global"
                                    ELSE "not in globals",
                        name |-> n, instruction |-> NextInstr]
          IN /\ (byName \/ byValue) => _errors' = _errors
             /\ ~(byName \/ byValue) => _errors' = Append(_errors, entry)
             /\ byName => predicate_calls' = predicate_calls]_vars

\* A top-level global load has been scanned in each of the claim's cases:
\* here one rejected by the predicate, after one that was exempt or admitted.
C2_Witness ==
    /\ pc = "scan" /\ Len(stack) = 1 /\ Top.ip = 3
    /\ Top.code.instrs[1].opname = "LOAD_GLOBAL"
    /\ Top.code.instrs[2].opname = "LOAD_GLOBAL"
    /\ Len(_errors) = 1
    /\ _errors[1].message = "not a permitted global"
    /\ _errors[1].instruction = Top.code.instrs[2]
    /\ predicate_calls = <<Top.code.instrs[2].argval>>


(***************************************************************************)
(* C3.  The own code of the callable reads a free variable v of an         *)
(* enclosing function scope (not a parameter, not stored, not allowed by   *)
(* the caller).                                                            *)
(***************************************************************************)
\* The free variables the own instructions of the callable read, the
\* caller not having allowed them by name.
FreeReads(f) ==
    (OwnCellLoads(f.__code__) \cap Range(f.__code__.co_freevars))
        \ policy.allowed

\* C3 as claimed: with allow_closure=False the decoration raises naming v
\* whatever v's value and whatever the predicate says of it; with
\* allow_closure=True the read is accepted and the predicate not asked.
\* (`__class__`, which is no variable of a function scope, is left out.)
C3_ClosureReadAlwaysRejected ==
    pc = "done" =>
        \A v \in FreeReads(func) \ {"__class__"} :
            IF ~policy.allow_closure THEN Reported(v)
            ELSE ~Reported(v) /\ v \notin Range(predicate_calls)

\* C3 as amended: with allow_closure=False the read is judged as a global
\* load is, against the value the closure holds (EmptyCell for an
\* unpopulated cell): the decoration raises naming v unless builtins has an
\* attribute of that name or the predicate accepts the value; with
\* allow_closure=True the read is accepted and the predicate not asked.
C3_ClosureReadJudgedByValue ==
    pc = "done" =>
        \A v \in FreeReads(func) :
            IF ~policy.allow_closure
            THEN Reported(v) <=>
                    ~(\/ v \in {"print", "__class__"}
                      \/ ApplyPredicate(NormalisePredicate(policy.predicate),
                                        ClosureValue(func, v)))
            ELSE ~Reported(v) /\ v \notin Range(predicate_calls)

\* With closure reads disabled and the default predicate, the callable reads
\* x (an int: reported) and y (a module: admitted) of the enclosing function.
C3_Witness ==
    /\ pc = "done"
    /\ ~policy.allow_closure
    /\ policy.predicate = "None"
    /\ FreeReads(func) = {"x", "y"}
    /\ ~CellIsEmpty(func, "x") /\ ~CellIsEmpty(func, "y")
    /\ Raised
    /\ result.vars = <<"x">>
    /\ predicate_calls = <<"x", "y">>

ExpectedEntries ==
    EntriesFrom(WalkOrder(func.__code__, FALSE), 1, policy.allowed,
                MergeDicts(ModuleGlobals,
                           _safely_get_closure_vars(func).nonlocals),
                NormalisePredicate(policy.predicate), policy.allow_closure)

C5_AllViolationsCollected ==
    /\ pc = "scan" => result = NoResult
    /\ pc = "done" =>
          LET k == Len(ExpectedEntries)
          IN /\ log = InstructionsInOrder(func.__code__)
             /\ k >= 1 => /\ Raised
                          /\ result.vars =
                                [i \in 1..k |-> ExpectedEntries[i].name]
             /\ k = 0 => Returned

\* Three entries, two of them for the same name: x read by the function
\* itself, x again by its first nested code object, y by its second.
C5_Witness ==
    /\ pc = "done"
    /\ Raised
    /\ Len(func.__code__.instrs) = 1
    /\ Len(log) = 3
    /\ result.vars = <<"x", "x", "y">>

(***************************************************************************)
(* C6.  A decorator built once with options and applied to several         *)
(* functions gives, at every application, the outcome of an isolated       *)
(* direct call with the same options: nothing an earlier decoration added  *)
(* to the allowed names is left in the decorator, and the collection the   *)
(* caller passed is never modified.                                        *)
(***************************************************************************)
C6_DecoratorReuse ==
    /\ sets["caller"] = policy.allowed
    /\ decorator.bound => sets[decorator.allowed] = policy.allowed
    /\ (pc = "done" /\ via = "decorator") =>
          result = IsolatedOutcome(func, policy.predicate, policy.allowed,
                                   policy.allow_closure)

\* The decorator, built with no allowed names and used before, is applied
\* to a function that reads the global x and stores the cell x in nested
\* code: the read is reported although decorations have added x before.
C6_Witness ==
    /\ pc = "done"
    /\ via = "decorator"
    /\ applied
    /\ policy.allowed = {}
    /\ policy.predicate = "None"
    /\ func.__code__.instrs = <<LG("x")>>
    /\ "x" \in AllowedByTree(func.__code__)
    /\ "x" \in sets[allowed]
    /\ Raised
    /\ result.vars = <<"x">>

(***************************************************************************)
(* C7.  Every parameter of every code object of the tree, **kwargs         *)
(* included, is in the allowed names before the code object's instructions *)
(* are scanned, so no read of a parameter is reported.                     *)
(***************************************************************************)
C7_ParametersAreAllowed ==
    /\ pc = "scan" =>
          \A i \in 1..Len(stack) : Parameters(stack[i].code) \subseteq sets[allowed]
    /\ pc = "done" =>
          \A n \in Parameters(func.__code__) : ~Reported(n)

(***************************************************************************)
(* C8.  The closure resolver never raises for an unpopulated cell: the     *)
(* snapshot gives every free variable its cell's value, or EmptyCell.  A   *)
(* method whose only free variable is the unpopulated __class__ of super() *)
(* is returned when it reads no other foreign name, and a rejected free    *)
(* variable it reads besides is still reported.                            *)
(***************************************************************************)
C8_EmptyCellsAreSafe ==
    pc \in {"scan", "done"} =>
        /\ result.kind # "ValueError"
        /\ \A n \in Range(func.__code__.co_freevars) :
              n \in DOMAIN _globals /\ _globals[n] = ClosureValue(func, n)
        /\ (/\ pc = "done"
            /\ func.__code__.instrs = <<LD("__class__")>>
            /\ CodeConsts(func.__code__) = {}) => Returned
        /\ (/\ pc = "done"
            /\ "__class__" \in FreeReads(func)
            /\ CellIsEmpty(func, "__class__")
            /\ "x" \in FreeReads(func)
            /\ ~policy.allow_closure
            /\ ~ApplyPredicate(NormalisePredicate(policy.predicate),
                               ClosureValue(func, "x"))) => Reported("x")

\* A method that calls super() while __class__ is unpopulated and reads the
\* int x of the enclosing function: x, and only x, is reported.
C8_Witness ==
    /\ pc = "done"
    /\ func.__code__.instrs = <<LD("__class__"), LD("x")>>
    /\ CellIsEmpty(func, "__class__")
    /\ ~CellIsEmpty(func, "x")
    /\ _globals["__class__"] = EmptyCell
    /\ Raised
    /\ result.vars = <<"x">>

(***************************************************************************)
(* C9.  With allow_closure=False, under the default predicate and under    *)
(* localscope.mfc alike, a read of a free variable whose cell is           *)
(* unpopulated succeeds if the name is allowed and is otherwise reported   *)
(* as "not a permitted global".                                            *)
(***************************************************************************)
C9_UnpopulatedFreeVariable ==
    (pc = "done" /\ ~policy.allow_closure
        /\ policy.predicate \in {"None", "_allow_mfc"}) =>
        \A n \in (OwnCellLoads(func.__code__)
                    \cap Range(func.__code__.co_freevars)) \ {"__class__"} :
            CellIsEmpty(func, n) =>
                IF n \in policy.allowed THEN ~Reported(n)
                ELSE /\ Raised
                     /\ \E i \in 1..Len(result.vars) :
                           /\ result.vars[i] = n
                           /\ result.messages[i] = "not a permitted global"

(***************************************************************************)
(* C10.  During one decoration the allowed names are one set for the whole *)
(* walk, which only grows: at any point it is the caller's names, the      *)
(* arguments of the code objects entered and the names of the STORE_DEREF  *)
(* instructions scanned so far.  A STORE_DEREF adds its name when it is    *)
(* scanned, and a load of an allowed name records nothing.                 *)
(***************************************************************************)
\* What one call of _localscope has added so far: its arguments, the cells
\* stored by the instructions it has scanned, and what the nested code
\* objects it has finished with added.
AddedSoFar(fr) ==
    ArgSlice(fr.code)
    \cup {fr.code.instrs[k].argval :
            k \in {k \in 1..(fr.ip - 1) :
                     fr.code.instrs[k].opname = "STORE_DEREF"}}
    \cup UNION {AllowedByTree(fr.code.co_consts[j]) :
                  j \in {j \in 1..(fr.ci - 1) :
                           IsCodeType(fr.code.co_consts[j])}}

AllowedIsAccumulated ==
    pc = "scan" =>
        sets[allowed] =
            policy.allowed \cup UNION {AddedSoFar(stack[i]) : i \in 1..Len(stack)}

C10_AllowedOnlyGrows ==
    /\ []AllowedIsAccumulated
    /\ [][pc = "scan" =>
            /\ allowed' = allowed
            /\ sets[allowed] \subseteq sets'[allowed]
            /\ (Scanning /\ NextInstr.opname = "STORE_DEREF") =>
                  NextInstr.argval \in sets'[allowed]
            /\ (/\ Scanning
                /\ NextInstr.opname \in {"LOAD_GLOBAL", "LOAD_DEREF"}
                /\ NextInstr.argval \in sets[allowed]) => _errors' = _errors]_vars

\* x = ... after a read of the cell x: both instructions are scanned, the
\* read, which came before the store, is recorded, and x is allowed now.
C10_Witness ==
    /\ pc = "scan"
    /\ Len(stack) = 1
    /\ Top.code.instrs = <<LD("x"), SD("x")>>
    /\ Top.code.co_freevars = <<>>
    /\ Top.ip = 3
    /\ policy.allowed = {}
    /\ "x" \in sets[allowed]
    /\ Len(_errors) = 1
    /\ _errors[1].name = "x"

(***************************************************************************)
(* C11.  A global load of n is exempt by name only if n is among the       *)
(* caller's allowed names or is a parameter or stored cell of the code     *)
(* object that loads it or of one of its ancestors: a parameter or store   *)
(* of an unrelated code object, analysed earlier, never makes a read of    *)
(* the module's n pass when the predicate rejects its value.               *)
(***************************************************************************)
\* The names a code tree loads as globals outside the scope of the loading
\* code object and of its ancestors, `scope` being what the ancestors bind.
RECURSIVE ScopedGlobalLoads(_, _)
ScopedGlobalLoads(code, scope) ==
    LET here == scope \cup Parameters(code) \cup StoredNames(code)
    IN {ins.argval : ins \in {i \in Range(code.instrs) :
                                i.opname = "LOAD_GLOBAL"
                                /\ i.argval \notin here}}
       \cup UNION {ScopedGlobalLoads(k, here) : k \in CodeConsts(code)}

C11_NoExemptionFromUnrelatedCode ==
    pc = "done" =>
        \A n \in ScopedGlobalLoads(func.__code__, {}) :
            (/\ n \notin policy.allowed
             /\ n \notin {"print", "__class__"}
             /\ n \in DOMAIN ModuleGlobals
             /\ ~ApplyPredicate(NormalisePredicate(policy.predicate),
                                ModuleGlobals[n]))
                => Reported(n)

(***************************************************************************)
(* C12.  With allow_closure=False, a decoration that succeeds means no     *)
(* code object of the tree reads a variable bound outside the decorated    *)
(* callable, unless the caller allowed the name, builtins has an attribute *)
(* of that name, or the predicate admits its value: a variable of the      *)
(* enclosing scope read only inside nested code is reported too.           *)
(***************************************************************************)
\* The names a code tree reads from cells that neither the reading code
\* object nor one of its ancestors in the tree binds.
RECURSIVE ForeignCellLoads(_, _)
ForeignCellLoads(code, bound) ==
    LET here == bound \cup Bound(code)
    IN (OwnCellLoads(code) \ here)
       \cup UNION {ForeignCellLoads(k, here) : k \in CodeConsts(code)}

C12_NoForeignReadAfterSuccess ==
    (pc = "done" /\ ~policy.allow_closure /\ Returned) =>
        \A n \in ForeignCellLoads(func.__code__, {}) :
            \/ n \in policy.allowed
            \/ n \in {"print", "__class__"}
            \/ ApplyPredicate(NormalisePredicate(policy.predicate),
                              ClosureValue(func, n))

=============================================================================
